---- MODULE Spec2Model ----
(***************************************************************************)
(* State-machine model of the DavinciProjectFiles tool                     *)
(* (api/app/clients/tools/structured/DavinciProjectFiles.js): one tool     *)
(* instance, the ws sockets it creates, its pending_requests table, its    *)
(* setTimeout timers and the calls made through _call.                     *)
(*                                                                         *)
(* Node runs one callback at a time, so every handler is one atomic        *)
(* action.  Time is kept by the timers themselves: each armed timer holds  *)
(* the milliseconds left until it is due, and Tick lets time pass.         *)
(***************************************************************************)
EXTENDS Integers, Sequences, FiniteSets, TLC

\* ------------------------------------------------------------------ bounds
MaxSockets == 3      \* sockets ever created plus reconnect timers outstanding
MaxCalls == 2        \* invocations of _call
MaxReconnects == 1   \* reconnections while requests are in flight
MaxFacadeCalls == 1  \* invocations of _call with every input
MaxTransportCalls == 2  \* calls of start, calls of send, inbound frames

\* ------------------------------------------------------- program constants
ReconnectDelay == 5000
RequestTimeout == 30000
HandleNull == 0      \* this.ws = null

\* Time passes in steps of the reconnect delay, which divides the request
\* timeout: every timer falls due exactly on a step.
TickMs == ReconnectDelay

\* --------------------------------------------------------------- JS values
Absent == "<undefined>"     \* a field that is missing / undefined
NoId == "<none>"            \* no request id was generated for the call
None == "<nothing>"         \* no value / no error yet

\* The values a data field takes: undefined (the field is missing) or an
\* array of strings.
JSUndefined == [t |-> "undefined"]
JSArray(items) == [t |-> "array", items |-> items]

\* items joined with commas, each in double quotes.
RECURSIVE JoinQuoted(_)
JoinQuoted(items) ==
    IF items = <<>> THEN ""
    ELSE IF Len(items) = 1 THEN "\"" \o items[1] \o "\""
    ELSE "\"" \o items[1] \o "\"," \o JoinQuoted(Tail(items))

\* JSON.stringify(value): undefined for undefined, else the JSON text.
JSONStringify(value) ==
    IF value.t = "undefined" THEN Absent
    ELSE "[" \o JoinQuoted(value.items) \o "]"

\* !x of JavaScript for the optional string fields used here.
Falsy(x) == x = Absent \/ x = ""
Truthy(x) == ~Falsy(x)

\* String.prototype.substring(from, to) with 0-based indices.
Substring(s, from, to) ==
    LET hi == IF to < Len(s) THEN to ELSE Len(s)
        lo == IF from < hi THEN from ELSE hi
    IN  SubSeq(s, lo + 1, hi)

\* The texts Math.random().toString(36) is drawn from: 0, 0.25 and 0.5.
RandomTexts == {"0", "0.9", "0.i"}

\* request_id = Math.random().toString(36).substring(2, 15)
GenRequestId(text) == Substring(text, 2, 15)

RequestIds == {GenRequestId(t) : t \in RandomTexts}

\* ----------------------------------------------------------------- inputs
Functions == {"getProjects", "getProjectTree", "getProjectFile", "deleteProject"}
ProjectNames == {Absent, "", "proj1"}
FilePaths == {Absent, "", "a.txt"}
Inputs == [function : Functions, project_name : ProjectNames, file_path : FilePaths]

\* Inbound frames (event.data).  A frame is garbage (not JSON), the JSON
\* text null, or the JSON text of an object with some of the fields
\* request_id, error and data.
FrameIds == RequestIds \cup {Absent, "initial-connection"}
FrameErrors == {Absent, "", "not found"}
FrameData == {JSUndefined, JSArray(<<"proj1", "proj2">>)}
ObjectFrames == [kind : {"object"}, request_id : FrameIds, error : FrameErrors,
                 data : FrameData]
Frames == {[kind |-> "garbage"], [kind |-> "null"]} \cup ObjectFrames

\* Mutant of JSONParse: text that is not JSON is read as a reply to "9".
JSONParseGarbageAsReply(frame) ==
    IF frame.kind = "garbage"
    THEN [threw |-> FALSE, isNull |-> FALSE,
          request_id |-> "9", error |-> Absent, data |-> JSUndefined]
    ELSE IF frame.kind = "null" THEN [threw |-> FALSE, isNull |-> TRUE]
    ELSE [threw |-> FALSE, isNull |-> FALSE,
          request_id |-> frame.request_id, error |-> frame.error, data |-> frame.data]

\* Mutant of JSONParse: an envelope without request_id is read as a reply
\* to "9".
JSONParseIdDefaulted(frame) ==
    IF frame.kind = "garbage" THEN [threw |-> TRUE]
    ELSE IF frame.kind = "null" THEN [threw |-> FALSE, isNull |-> TRUE]
    ELSE [threw |-> FALSE, isNull |-> FALSE,
          request_id |-> IF frame.request_id = Absent THEN "9" ELSE frame.request_id,
          error |-> frame.error, data |-> frame.data]

\* JSON.parse(event.data): throws on garbage, yields null or the object.
JSONParse(frame) ==
    IF frame.kind = "garbage" THEN [threw |-> TRUE]
    ELSE IF frame.kind = "null" THEN [threw |-> FALSE, isNull |-> TRUE]
    ELSE [threw |-> FALSE, isNull |-> FALSE,
          request_id |-> frame.request_id, error |-> frame.error, data |-> frame.data]

\* JSON.stringify of an object drops the fields whose value is undefined.
JSONStringifyObject(obj) ==
    [k \in {f \in DOMAIN obj : obj[f] # Absent} |-> obj[k]]

VARIABLES
    override,          \* fields.override of the constructor
    urlValid,          \* whether new WebSocket(this.wsUrl) accepts the URL
    ws,                \* this.ws: HandleNull or the index of a socket
    readyState,        \* readyState of every socket created, by index
    createdBy,         \* history: which code path created each socket
    reconnectTimers,   \* ms left on each setTimeout(connectWebSocket, 5000)
    pending_requests,  \* this.pending_requests: request id -> call
    calls,             \* every invocation of _call, with its outcome
    sent,              \* every envelope handed to ws.send, in order
    cleanupCalled,     \* history: cleanup() has been called
    uncaught,          \* history: sockets whose open handler threw
    lastOp,            \* history: the step taken last
    handled,           \* history: the path the message handler took last
    \* WebSocketClientTransportWithHeaders, one instance
    constructed,       \* the transport's constructor has run
    urlAccepted,       \* whether new WebSocket accepts this._url
    _socket,           \* this._socket: NoSocket or the index of a socket
    socketState,       \* readyState of every socket the transport created
    starts,            \* every call of start(), with its outcome
    sends,             \* every call of send(), with its outcome
    wire,              \* every text handed to this._socket.send, in order
    handlers,          \* the callbacks assigned: onclose, onerror, onmessage
    callbacks,         \* every onclose / onerror / onmessage invocation
    lastCall,          \* history: the transport step taken last
    closeCalled,       \* history: close() was called after a call of start(),
                       \* and with the socket reference set
    \* two DavinciProjectFiles instances, for two user sessions
    instances,         \* the fields of each instance
    maps               \* the Map objects the instances' pending_requests refer to

toolVars == <<override, urlValid, ws, readyState, createdBy, reconnectTimers,
              pending_requests, calls, sent, cleanupCalled, uncaught, lastOp,
              handled>>

transportVars == <<constructed, urlAccepted, _socket, socketState, starts, sends,
                   wire, handlers, callbacks, lastCall, closeCalled>>

pairVars == <<instances, maps>>

vars == <<toolVars, transportVars, pairVars>>

Sockets == 1..Len(readyState)
CallIds == 1..Len(calls)

\* A socket that is connecting or open.
Live(s) == readyState[s] \in {"CONNECTING", "OPEN"}

\* Room for one more socket or reconnect timer within a bound of max.
Room(max) == Len(readyState) + Len(reconnectTimers) < max


\* ----------------------------------------------------------- ws sockets
\* WebSocket.send of the ws package: throws while CONNECTING, transmits
\* while OPEN, and otherwise drops the data without an error.
WsSend(state) ==
    IF state = "CONNECTING" THEN "threw"
    ELSE IF state = "OPEN" THEN "sent"
    ELSE "dropped"

\* WebSocket.close of the ws package: a connecting or open socket starts
\* closing; the close event follows later.
WsClose(state) == IF state \in {"CONNECTING", "OPEN"} THEN "CLOSING" ELSE state

\* ------------------------------------------------------ connectWebSocket
\* Mutant of HasHandle: the guard is missing.
HasHandleNever == FALSE

\* if (this.ws) return;
HasHandle == ws # HandleNull

\* this.ws = new WebSocket(this.wsUrl, ...) and the addEventListener calls.
NewWebSocket(by, timers) ==
    /\ readyState' = Append(readyState, "CONNECTING")
    /\ createdBy' = Append(createdBy, [by |-> by, afterCleanup |-> cleanupCalled])
    /\ ws' = Len(readyState) + 1
    /\ reconnectTimers' = timers

\* Mutant of ScheduleReconnect: no timer is armed.
ScheduleNothing(timers) == timers

\* setTimeout(() => this.connectWebSocket(), 5000)
ScheduleReconnect(timers) == Append(timers, ReconnectDelay)

\* Mutant of CreateFailed: the catch block schedules no reconnection.
CreateFailedNoRetry(timers) ==
    /\ ws' = HandleNull
    /\ reconnectTimers' = timers
    /\ UNCHANGED <<readyState, createdBy>>

\* catch (error): this.ws = null; and the reconnect timer
CreateFailed(timers) ==
    /\ ws' = HandleNull
    /\ reconnectTimers' = ScheduleReconnect(timers)
    /\ UNCHANGED <<readyState, createdBy>>

\* connectWebSocket(), called by `by` with `timers` the timers still armed.
connectWebSocket(by, timers) ==
    IF HasHandle
    THEN reconnectTimers' = timers /\ UNCHANGED <<ws, readyState, createdBy>>
    ELSE IF urlValid THEN NewWebSocket(by, timers) ELSE CreateFailed(timers)

\* The verification message of the open handler.
VerifyMessage ==
    [sender_type |-> "plugin", type |-> "connection_verify",
     request_id |-> "initial-connection"]

\* ------------------------------------------------------------------ Init
NoSocket == 0        \* this._socket is undefined

\* Mutant of NewMap: one Map object serves every instance.
NewMapShared(i) == <<"Map", 1>>

\* this.pending_requests = new Map(): the Map object of instance i
NewMap(i) == <<"Map", i>>

\* Two instances as their constructors leave them (no override, a URL that
\* new WebSocket accepts): a connecting socket and an empty Map each.
PairInit ==
    /\ instances = [i \in 1..2 |->
                       [ws |-> 1, readyState |-> <<"CONNECTING">>,
                        reconnectTimers |-> <<>>, pending_requests |-> NewMap(i),
                        calls |-> <<>>]]
    /\ maps = [m \in {NewMap(1), NewMap(2)} |-> <<>>]

\* The transport before its constructor has run.
TransportInit ==
    /\ constructed = FALSE
    /\ urlAccepted = FALSE
    /\ _socket = NoSocket
    /\ socketState = <<>>
    /\ starts = <<>>
    /\ sends = <<>>
    /\ wire = <<>>
    /\ handlers = {}
    /\ callbacks = <<>>
    /\ lastCall = "none"
    /\ closeCalled = [afterStart |-> FALSE, withSocket |-> FALSE]

\* Mutant of Init: the constructor connects whatever fields.override is.
InitIgnoresOverride ==
    /\ override \in BOOLEAN
    /\ urlValid \in BOOLEAN
    /\ pending_requests = <<>>
    /\ calls = <<>>
    /\ sent = <<>>
    /\ cleanupCalled = FALSE
    /\ uncaught = {}
    /\ lastOp = "constructor"
    /\ handled = None
    /\ TransportInit
    /\ PairInit
    /\ IF urlValid
       THEN ws = 1 /\ readyState = <<"CONNECTING">>
            /\ createdBy = <<[by |-> "constructor", afterCleanup |-> FALSE]>>
            /\ reconnectTimers = <<>>
       ELSE ws = HandleNull /\ readyState = <<>> /\ createdBy = <<>>
            /\ reconnectTimers = <<ReconnectDelay>>

\* The state the constructor leaves: no socket with fields.override, else
\* the outcome of its connectWebSocket() call.
Init ==
    /\ override \in BOOLEAN
    /\ urlValid \in BOOLEAN
    /\ pending_requests = <<>>
    /\ calls = <<>>
    /\ sent = <<>>
    /\ cleanupCalled = FALSE
    /\ uncaught = {}
    /\ lastOp = "constructor"
    /\ handled = None
    /\ TransportInit
    /\ PairInit
    /\ IF override
       THEN ws = HandleNull /\ readyState = <<>> /\ createdBy = <<>>
            /\ reconnectTimers = <<>>
       ELSE IF urlValid
       THEN ws = 1 /\ readyState = <<"CONNECTING">>
            /\ createdBy = <<[by |-> "constructor", afterCleanup |-> FALSE]>>
            /\ reconnectTimers = <<>>
       ELSE ws = HandleNull /\ readyState = <<>> /\ createdBy = <<>>
            /\ reconnectTimers = <<ReconnectDelay>>

\* ------------------------------------------------------- socket handlers
\* The host calls connectWebSocket().
Connect ==
    /\ connectWebSocket("call", reconnectTimers)
    /\ lastOp' = "connectWebSocket"
    /\ handled' = None
    /\ UNCHANGED <<transportVars, pairVars>>
    /\ UNCHANGED <<override, urlValid, pending_requests, calls, sent,
                   cleanupCalled, uncaught>>

\* A reconnect timer falls due and calls connectWebSocket().
ReconnectTimer ==
    /\ reconnectTimers # <<>>
    /\ Head(reconnectTimers) = 0
    /\ connectWebSocket("timer", Tail(reconnectTimers))
    /\ lastOp' = "reconnectTimer"
    /\ handled' = None
    /\ UNCHANGED <<transportVars, pairVars>>
    /\ UNCHANGED <<override, urlValid, pending_requests, calls, sent,
                   cleanupCalled, uncaught>>

\* The open event of socket s: this.ws.send(JSON.stringify({...})).
OnOpen(s) ==
    /\ readyState[s] = "CONNECTING"
    /\ readyState' = [readyState EXCEPT ![s] = "OPEN"]
    /\ LET outcome == IF ws = HandleNull THEN "threw" ELSE WsSend(readyState'[ws])
       IN  /\ sent' = IF outcome = "sent"
                      THEN Append(sent, [sock |-> ws,
                                         env |-> JSONStringifyObject(VerifyMessage)])
                      ELSE sent
           /\ uncaught' = IF outcome = "threw" THEN uncaught \cup {s} ELSE uncaught
    /\ lastOp' = "open"
    /\ handled' = None
    /\ UNCHANGED <<transportVars, pairVars>>
    /\ UNCHANGED <<override, urlValid, ws, createdBy, reconnectTimers,
                   pending_requests, calls, cleanupCalled>>

\* The peer starts the closing handshake of socket s: no handler runs.
PeerClosing(s) ==
    /\ readyState[s] = "OPEN"
    /\ readyState' = [readyState EXCEPT ![s] = "CLOSING"]
    /\ lastOp' = "peerClosing"
    /\ handled' = None
    /\ UNCHANGED <<transportVars, pairVars>>
    /\ UNCHANGED <<override, urlValid, ws, createdBy, reconnectTimers,
                   pending_requests, calls, sent, cleanupCalled, uncaught>>

\* Mutant of OnClose: the close handler also rejects every pending request
\* and clears the table.
OnCloseRejectsPending(s) ==
    /\ readyState[s] # "CLOSED"
    /\ readyState' = [readyState EXCEPT ![s] = "CLOSED"]
    /\ ws' = HandleNull
    /\ reconnectTimers' = ScheduleReconnect(reconnectTimers)
    /\ calls' = [c \in 1..Len(calls) |->
                    IF calls[c].state = "waiting"
                    THEN [calls[c] EXCEPT !.state = "rejected",
                                          !.value = "WebSocket closed",
                                          !.settles = @ + 1]
                    ELSE calls[c]]
    /\ pending_requests' = <<>>
    /\ lastOp' = "close"
    /\ handled' = None
    /\ UNCHANGED <<transportVars, pairVars>>
    /\ UNCHANGED <<override, urlValid, createdBy, sent, cleanupCalled, uncaught>>

\* The close event of socket s (a failed handshake, a dropped connection or
\* the end of a closing handshake): this.ws = null and a reconnect timer.
OnClose(s) ==
    /\ readyState[s] # "CLOSED"
    /\ readyState' = [readyState EXCEPT ![s] = "CLOSED"]
    /\ ws' = HandleNull
    /\ reconnectTimers' = ScheduleReconnect(reconnectTimers)
    /\ lastOp' = "close"
    /\ handled' = None
    /\ UNCHANGED <<transportVars, pairVars>>
    /\ UNCHANGED <<override, urlValid, createdBy, pending_requests, calls, sent,
                   cleanupCalled, uncaught>>

\* Mutant of cleanup: the scheduled reconnection timers are cancelled.
cleanupCancelsTimers ==
    /\ IF HasHandle
       THEN /\ readyState' = [readyState EXCEPT ![ws] = WsClose(@)]
            /\ ws' = HandleNull
       ELSE UNCHANGED <<ws, readyState>>
    /\ reconnectTimers' = <<>>
    /\ cleanupCalled' = TRUE
    /\ lastOp' = "cleanup"
    /\ handled' = None
    /\ UNCHANGED <<transportVars, pairVars>>
    /\ UNCHANGED <<override, urlValid, createdBy, pending_requests, calls, sent,
                   uncaught>>

\* Mutant of cleanup: the pending table is cleared as well.
cleanupClearsTable ==
    /\ IF HasHandle
       THEN /\ readyState' = [readyState EXCEPT ![ws] = WsClose(@)]
            /\ ws' = HandleNull
       ELSE UNCHANGED <<ws, readyState>>
    /\ pending_requests' = <<>>
    /\ cleanupCalled' = TRUE
    /\ lastOp' = "cleanup"
    /\ handled' = None
    /\ UNCHANGED <<transportVars, pairVars>>
    /\ UNCHANGED <<override, urlValid, createdBy, reconnectTimers, calls, sent,
                   uncaught>>

\* cleanup(): if (this.ws) { this.ws.close(); this.ws = null; }
cleanup ==
    /\ IF HasHandle
       THEN /\ readyState' = [readyState EXCEPT ![ws] = WsClose(@)]
            /\ ws' = HandleNull
       ELSE UNCHANGED <<ws, readyState>>
    /\ cleanupCalled' = TRUE
    /\ lastOp' = "cleanup"
    /\ handled' = None
    /\ UNCHANGED <<transportVars, pairVars>>
    /\ UNCHANGED <<override, urlValid, createdBy, reconnectTimers,
                   pending_requests, calls, sent, uncaught>>


\* ------------------------------------------------------------ the calls
TimerOff == 0 - 1    \* no request timeout armed (never armed, or it fired)

\* The promise of call c is settled through resolve or reject: only the
\* first settlement of a promise has an effect.
Settle(cs, c, outcome, value) ==
    [cs EXCEPT ![c].settles = @ + 1,
               ![c].state = IF cs[c].state = "waiting" THEN outcome ELSE @,
               ![c].value = IF cs[c].state = "waiting" THEN value ELSE @]

\* this.pending_requests.delete(id)
Delete(table, id) == [k \in DOMAIN table \ {id} |-> table[k]]

\* Mutant of Set: the entry is not stored.
SetNever(table, id, c) == table

\* this.pending_requests.set(id, { resolve, reject }) for call c
Set(table, id, c) == [k \in DOMAIN table \cup {id} |-> IF k = id THEN c ELSE table[k]]

\* Mutant of NotConnected: the readyState is not looked at.
NotConnectedNullOnly == ws = HandleNull

\* if (!this.ws || this.ws.readyState !== WebSocket.OPEN)
NotConnected == ws = HandleNull \/ readyState[ws] # "OPEN"

\* Mutant of ValidationError: the file path is not checked.
ValidationErrorNoPath(input) ==
    IF input.function = "getProjects" THEN None
    ELSE IF input.function \in {"getProjectTree", "getProjectFile"}
    THEN IF Falsy(input.project_name) THEN "Project name is required" ELSE None
    ELSE "Invalid function: " \o input.function

\* Mutant of ValidationError: getProjectFile checks the file path first.
ValidationErrorPathFirst(input) ==
    IF input.function = "getProjects" THEN None
    ELSE IF input.function = "getProjectTree"
    THEN IF Falsy(input.project_name) THEN "Project name is required" ELSE None
    ELSE IF input.function = "getProjectFile"
    THEN IF Falsy(input.file_path) THEN "File path is required"
         ELSE IF Falsy(input.project_name) THEN "Project name is required"
         ELSE None
    ELSE "Invalid function: " \o input.function

\* The checks of _call before it sends: the error thrown, or None.
ValidationError(input) ==
    IF input.function = "getProjects" THEN None
    ELSE IF input.function = "getProjectTree"
    THEN IF Falsy(input.project_name) THEN "Project name is required" ELSE None
    ELSE IF input.function = "getProjectFile"
    THEN IF Falsy(input.project_name) THEN "Project name is required"
         ELSE IF Falsy(input.file_path) THEN "File path is required"
         ELSE None
    ELSE "Invalid function: " \o input.function

\* Mutant of RequestType: _getProjectFile sends the type of the tree request.
RequestTypeFileAsTree(input) ==
    IF input.function = "getProjects" THEN "get_projects"
    ELSE "get_project_tree"

\* The type _getProjects, _getProjectTree and _getProjectFile send.
RequestType(input) ==
    IF input.function = "getProjects" THEN "get_projects"
    ELSE IF input.function = "getProjectTree" THEN "get_project_tree"
    ELSE "get_file"

\* The payload they pass to sendWebSocketRequest.
Payload(input) ==
    IF input.function = "getProjects" THEN <<>>
    ELSE IF input.function = "getProjectTree"
    THEN [project_name |-> input.project_name]
    ELSE [project_name |-> input.project_name, file_path |-> input.file_path]

\* const request = { request_id, sender_type: 'plugin', type, ...payload }
BuildRequest(id, type, payload) ==
    payload @@ [request_id |-> id, sender_type |-> "plugin", type |-> type]

\* A new entry of calls.
CallRecord(input, id, state, value, timer) ==
    [input |-> input, request_id |-> id, state |-> state, value |-> value,
     settles |-> IF state = "waiting" THEN 0 ELSE 1, timer |-> timer]

\* sendWebSocketRequest(type, payload) for a new call with this input, the
\* random text drawn being `text`.
sendWebSocketRequest(input, type, payload, text) ==
    IF NotConnected
    THEN /\ calls' = Append(calls, CallRecord(input, NoId, "rejected",
                                              "WebSocket is not connected", TimerOff))
         /\ UNCHANGED <<pending_requests, sent>>
    ELSE LET id == GenRequestId(text)
         IN  /\ pending_requests' = Set(pending_requests, id, Len(calls) + 1)
             /\ calls' = Append(calls, CallRecord(input, id, "waiting", None,
                                                  RequestTimeout))
             /\ sent' = Append(sent,
                    [sock |-> ws,
                     env |-> JSONStringifyObject(BuildRequest(id, type, payload))])

\* _call(input)
Call(input, text) ==
    /\ IF ValidationError(input) # None
       THEN /\ calls' = Append(calls, CallRecord(input, NoId, "rejected",
                                                 ValidationError(input), TimerOff))
            /\ UNCHANGED <<pending_requests, sent>>
       ELSE sendWebSocketRequest(input, RequestType(input), Payload(input), text)
    /\ lastOp' = "_call"
    /\ handled' = None
    /\ UNCHANGED <<transportVars, pairVars>>
    /\ UNCHANGED <<override, urlValid, ws, readyState, createdBy, reconnectTimers,
                   cleanupCalled, uncaught>>

\* Mutant of GetEntry: some entry of the table, whatever its key.
GetAnyEntry(id) == pending_requests[CHOOSE k \in DOMAIN pending_requests : TRUE]

\* this.pending_requests.get(id): the call whose continuations are stored
GetEntry(id) == pending_requests[id]

\* response.request_id && this.pending_requests.has(response.request_id)
Matches(response) ==
    /\ Truthy(response.request_id)
    /\ response.request_id \in DOMAIN pending_requests

\* The path of the message handler for a parsed frame: JSON.parse threw,
\* reading request_id of null threw, the id is missing or empty, the id is
\* not in the table, or the continuation was called.
Handling(response) ==
    IF response.threw THEN "parse error"
    ELSE IF response.isNull THEN "type error"
    ELSE IF Falsy(response.request_id) THEN "no id"
    ELSE IF response.request_id \notin DOMAIN pending_requests THEN "unknown id"
    ELSE "settled"

\* The message event of socket s with event.data = frame.
OnMessage(s, frame) ==
    /\ readyState[s] \in {"OPEN", "CLOSING"}
    /\ LET response == JSONParse(frame)
       IN  IF response.threw \/ response.isNull \/ ~Matches(response)
           THEN UNCHANGED <<pending_requests, calls>>
           ELSE LET c == GetEntry(response.request_id)
                IN  /\ calls' = IF Truthy(response.error)
                                THEN Settle(calls, c, "rejected", response.error)
                                ELSE Settle(calls, c, "resolved",
                                            JSONStringify(response.data))
                    /\ pending_requests' = Delete(pending_requests, response.request_id)
    /\ lastOp' = "message"
    /\ handled' = Handling(JSONParse(frame))
    /\ UNCHANGED <<transportVars, pairVars>>
    /\ UNCHANGED <<override, urlValid, ws, readyState, createdBy, reconnectTimers,
                   sent, cleanupCalled, uncaught>>

\* Mutant of RequestTimer: a request that timed out on an open socket is
\* transmitted once more instead of being rejected.
RequestTimerRetry(c) ==
    /\ calls[c].timer = 0
    /\ LET id == calls[c].request_id
           off == [calls EXCEPT ![c].timer = TimerOff]
       IN  IF id \in DOMAIN pending_requests /\ ~NotConnected
           THEN /\ calls' = off
                /\ sent' = Append(sent,
                       [sock |-> ws,
                        env |-> JSONStringifyObject(
                                   BuildRequest(id, RequestType(calls[c].input),
                                                Payload(calls[c].input)))])
                /\ UNCHANGED pending_requests
           ELSE IF id \in DOMAIN pending_requests
           THEN /\ calls' = Settle(off, GetEntry(id), "rejected",
                                   "Request timeout")
                /\ pending_requests' = Delete(pending_requests, id)
                /\ UNCHANGED sent
           ELSE /\ calls' = off
                /\ UNCHANGED <<pending_requests, sent>>
    /\ lastOp' = "requestTimer"
    /\ handled' = None
    /\ UNCHANGED <<transportVars, pairVars>>
    /\ UNCHANGED <<override, urlValid, ws, readyState, createdBy, reconnectTimers,
                   cleanupCalled, uncaught>>

\* The 30 second timer of call c falls due.
RequestTimer(c) ==
    /\ calls[c].timer = 0
    /\ LET id == calls[c].request_id
           off == [calls EXCEPT ![c].timer = TimerOff]
       IN  IF id \in DOMAIN pending_requests
           THEN /\ calls' = Settle(off, GetEntry(id), "rejected",
                                   "Request timeout")
                /\ pending_requests' = Delete(pending_requests, id)
           ELSE /\ calls' = off
                /\ UNCHANGED pending_requests
    /\ lastOp' = "requestTimer"
    /\ handled' = None
    /\ UNCHANGED <<transportVars, pairVars>>
    /\ UNCHANGED <<override, urlValid, ws, readyState, createdBy, reconnectTimers,
                   sent, cleanupCalled, uncaught>>

\* ------------------------------------------------------------------ time
\* Time passes by TickMs: no armed timer is due, and every armed timer
\* comes TickMs closer.
Tick ==
    /\ \A i \in 1..Len(reconnectTimers) : reconnectTimers[i] > 0
    /\ \A c \in CallIds : calls[c].timer # 0
    /\ \/ reconnectTimers # <<>>
       \/ \E c \in CallIds : calls[c].timer # TimerOff
    /\ reconnectTimers' = [i \in 1..Len(reconnectTimers) |-> reconnectTimers[i] - TickMs]
    /\ calls' = [c \in CallIds |->
                    IF calls[c].timer = TimerOff THEN calls[c]
                    ELSE [calls[c] EXCEPT !.timer = @ - TickMs]]
    /\ lastOp' = "tick"
    /\ handled' = None
    /\ UNCHANGED <<transportVars, pairVars>>
    /\ UNCHANGED <<override, urlValid, ws, readyState, createdBy, pending_requests,
                   sent, cleanupCalled, uncaught>>

\* ------------------------------------------------------ two instances
\* The handlers above once more, run by instance i on its own fields.
Instances == DOMAIN instances

\* this.pending_requests of instance i
TableOf(i) == maps[instances[i].pending_requests]

\* The open event of socket s of instance i.
POnOpen(i, s) ==
    /\ instances[i].readyState[s] = "CONNECTING"
    /\ instances' = [instances EXCEPT ![i].readyState[s] = "OPEN"]
    /\ UNCHANGED maps
    /\ UNCHANGED <<toolVars, transportVars>>

\* The close event of socket s of instance i.
POnClose(i, s) ==
    /\ instances[i].readyState[s] # "CLOSED"
    /\ instances' = [instances EXCEPT
                        ![i].readyState[s] = "CLOSED",
                        ![i].ws = HandleNull,
                        ![i].reconnectTimers = ScheduleReconnect(@)]
    /\ UNCHANGED maps
    /\ UNCHANGED <<toolVars, transportVars>>

\* A reconnect timer of instance i falls due and calls connectWebSocket().
PReconnectTimer(i) ==
    /\ instances[i].reconnectTimers # <<>>
    /\ Head(instances[i].reconnectTimers) = 0
    /\ instances' =
          IF instances[i].ws # HandleNull
          THEN [instances EXCEPT ![i].reconnectTimers = Tail(@)]
          ELSE [instances EXCEPT
                   ![i].reconnectTimers = Tail(@),
                   ![i].readyState = Append(@, "CONNECTING"),
                   ![i].ws = Len(instances[i].readyState) + 1]
    /\ UNCHANGED maps
    /\ UNCHANGED <<toolVars, transportVars>>

\* cleanup() of instance i
Pcleanup(i) ==
    /\ instances' =
          IF instances[i].ws # HandleNull
          THEN [instances EXCEPT ![i].readyState[instances[i].ws] = WsClose(@),
                                 ![i].ws = HandleNull]
          ELSE instances
    /\ UNCHANGED maps
    /\ UNCHANGED <<toolVars, transportVars>>

\* _call({function: 'getProjects'}) of instance i, the random text drawn
\* being `text`.
PCall(i, input, text) ==
    /\ IF \/ instances[i].ws = HandleNull
          \/ instances[i].readyState[instances[i].ws] # "OPEN"
       THEN /\ instances' = [instances EXCEPT ![i].calls =
                   Append(@, CallRecord(input, NoId, "rejected",
                                        "WebSocket is not connected", TimerOff))]
            /\ UNCHANGED maps
       ELSE LET id == GenRequestId(text)
            IN  /\ maps' = [maps EXCEPT ![instances[i].pending_requests] =
                       Set(@, id, <<i, Len(instances[i].calls) + 1>>)]
                /\ instances' = [instances EXCEPT ![i].calls =
                       Append(@, CallRecord(input, id, "waiting", None,
                                            RequestTimeout))]
    /\ UNCHANGED <<toolVars, transportVars>>

\* The continuations stored in an entry are called: the call of the
\* instance that stored them is settled.
SettleEntry(insts, entry, outcome, value) ==
    [insts EXCEPT ![entry[1]].calls = Settle(@, entry[2], outcome, value)]

\* The message event of socket s of instance i with event.data = frame.
POnMessage(i, s, frame) ==
    /\ instances[i].readyState[s] \in {"OPEN", "CLOSING"}
    /\ LET response == JSONParse(frame)
       IN  IF \/ response.threw
              \/ response.isNull
              \/ Falsy(response.request_id)
              \/ response.request_id \notin DOMAIN TableOf(i)
           THEN UNCHANGED <<instances, maps>>
           ELSE LET entry == TableOf(i)[response.request_id]
                IN  /\ instances' =
                          IF Truthy(response.error)
                          THEN SettleEntry(instances, entry, "rejected", response.error)
                          ELSE SettleEntry(instances, entry, "resolved",
                                           JSONStringify(response.data))
                    /\ maps' = [maps EXCEPT ![instances[i].pending_requests] =
                                   Delete(@, response.request_id)]
    /\ UNCHANGED <<toolVars, transportVars>>

\* The 30 second timer of call c of instance i falls due.
PRequestTimer(i, c) ==
    /\ instances[i].calls[c].timer = 0
    /\ LET id == instances[i].calls[c].request_id
           off == [instances EXCEPT ![i].calls[c].timer = TimerOff]
       IN  IF id \in DOMAIN TableOf(i)
           THEN /\ instances' = SettleEntry(off, TableOf(i)[id], "rejected",
                                            "Request timeout")
                /\ maps' = [maps EXCEPT ![instances[i].pending_requests] =
                               Delete(@, id)]
           ELSE /\ instances' = off
                /\ UNCHANGED maps
    /\ UNCHANGED <<toolVars, transportVars>>

\* The timers both instances have armed, by the time left on each.
PairTimers ==
    UNION {{instances[i].reconnectTimers[k] :
               k \in 1..Len(instances[i].reconnectTimers)}
           \cup {instances[i].calls[c].timer : c \in 1..Len(instances[i].calls)}
           : i \in Instances} \ {TimerOff}

\* Time passes until the next armed timer of either instance is due.
PTick ==
    /\ PairTimers # {}
    /\ 0 \notin PairTimers
    /\ LET ms == CHOOSE t \in PairTimers : \A u \in PairTimers : t <= u
       IN  instances' =
             [i \in Instances |->
                 [instances[i] EXCEPT
                     !.reconnectTimers =
                         [k \in 1..Len(instances[i].reconnectTimers) |->
                             instances[i].reconnectTimers[k] - ms],
                     !.calls =
                         [c \in 1..Len(instances[i].calls) |->
                             IF instances[i].calls[c].timer = TimerOff
                             THEN instances[i].calls[c]
                             ELSE [instances[i].calls[c] EXCEPT !.timer = @ - ms]]]]
    /\ UNCHANGED maps
    /\ UNCHANGED <<toolVars, transportVars>>

\* ------------------------------- WebSocketClientTransportWithHeaders
AlreadyStarted == "WebSocketClientTransportWithHeaders already started!"

TransportSockets == 1..Len(socketState)

\* Outbound protocol messages and JSON.stringify(message).
Messages == {[jsonrpc |-> "2.0", method |-> "ping"]}
JSONStringifyMessage(message) ==
    "{\"jsonrpc\":\"" \o message.jsonrpc \o "\",\"method\":\""
        \o message.method \o "\"}"

\* Inbound frames: text that is not JSON, JSON that is no protocol message,
\* and the JSON text of a protocol message.
TransportFrames == {"not json", "{\"foo\":1}", "{\"jsonrpc\":\"2.0\",\"method\":\"ping\"}"}

\* Mutant of ParseMessage: JSON.parse alone, without the schema.
ParseMessageNoSchema(data) ==
    IF data = "not json" THEN [threw |-> TRUE, error |-> "SyntaxError"]
    ELSE IF data = "{\"foo\":1}" THEN [threw |-> FALSE, message |-> [foo |-> 1]]
    ELSE [threw |-> FALSE, message |-> [jsonrpc |-> "2.0", method |-> "ping"]]

\* JSONRPCMessageSchema.parse(JSON.parse(data)): the message, or the error
\* thrown by JSON.parse or by the schema.
ParseMessage(data) ==
    IF data = "not json" THEN [threw |-> TRUE, error |-> "SyntaxError"]
    ELSE IF data = "{\"foo\":1}" THEN [threw |-> TRUE, error |-> "ZodError"]
    ELSE [threw |-> FALSE, message |-> [jsonrpc |-> "2.0", method |-> "ping"]]

\* resolve or reject of the promise start() returned for socket s: only the
\* first settlement of a promise has an effect.
SettleStart(s, outcome, value) ==
    [k \in 1..Len(starts) |->
        IF starts[k].sock = s /\ starts[k].state = "pending"
        THEN [starts[k] EXCEPT !.state = outcome, !.value = value]
        ELSE starts[k]]

\* constructor(url, options)
TConstruct(accepted) ==
    /\ ~constructed
    /\ constructed' = TRUE
    /\ urlAccepted' = accepted
    /\ lastCall' = "constructor"
    /\ UNCHANGED <<_socket, socketState, starts, sends, wire, callbacks>>
    /\ UNCHANGED <<handlers, closeCalled>>
    /\ UNCHANGED <<toolVars, pairVars>>

\* The optional callback fields of the transport.
CallbackNames == {"onclose", "onerror", "onmessage"}

\* this.onclose?.(), this.onerror?.(error), this.onmessage?.(message): the
\* callback is invoked if one is assigned.
Invoke(cb, arg) ==
    IF cb \in handlers THEN Append(callbacks, [cb |-> cb, arg |-> arg])
    ELSE callbacks

\* The owner of the transport assigns one of its callback fields.
TAssign(cb) ==
    /\ constructed
    /\ cb \notin handlers
    /\ handlers' = handlers \cup {cb}
    /\ lastCall' = "assign"
    /\ UNCHANGED <<constructed, urlAccepted, _socket, socketState, starts, sends,
                   wire, callbacks, closeCalled>>
    /\ UNCHANGED <<toolVars, pairVars>>

\* Mutant of Started: the guard of start() is missing.
StartedNever == FALSE

\* if (this._socket)
Started == _socket # NoSocket

\* start()
TStart ==
    /\ constructed
    /\ IF Started
       THEN /\ starts' = Append(starts, [state |-> "threw", value |-> AlreadyStarted,
                                         sock |-> NoSocket])
            /\ UNCHANGED <<_socket, socketState>>
       ELSE IF ~urlAccepted
       THEN /\ starts' = Append(starts, [state |-> "rejected", value |-> "SyntaxError",
                                         sock |-> NoSocket])
            /\ UNCHANGED <<_socket, socketState>>
       ELSE /\ socketState' = Append(socketState, "CONNECTING")
            /\ _socket' = Len(socketState) + 1
            /\ starts' = Append(starts, [state |-> "pending", value |-> None,
                                         sock |-> Len(socketState) + 1])
    /\ lastCall' = "start"
    /\ UNCHANGED <<constructed, urlAccepted, sends, wire, callbacks>>
    /\ UNCHANGED <<handlers, closeCalled>>
    /\ UNCHANGED <<toolVars, pairVars>>

\* this._socket.onopen of socket s
TOnOpen(s) ==
    /\ socketState[s] = "CONNECTING"
    /\ socketState' = [socketState EXCEPT ![s] = "OPEN"]
    /\ starts' = SettleStart(s, "resolved", None)
    /\ lastCall' = "onopen"
    /\ UNCHANGED <<constructed, urlAccepted, _socket, sends, wire, callbacks>>
    /\ UNCHANGED <<handlers, closeCalled>>
    /\ UNCHANGED <<toolVars, pairVars>>

\* this._socket.onerror of socket s: the socket fails and starts closing.
TOnError(s) ==
    /\ socketState[s] \in {"CONNECTING", "OPEN"}
    /\ socketState' = [socketState EXCEPT ![s] = "CLOSING"]
    /\ starts' = SettleStart(s, "rejected", "WebSocket error")
    /\ callbacks' = Invoke("onerror", "WebSocket error")
    /\ lastCall' = "onerror"
    /\ UNCHANGED <<constructed, urlAccepted, _socket, sends, wire>>
    /\ UNCHANGED <<handlers, closeCalled>>
    /\ UNCHANGED <<toolVars, pairVars>>

\* this._socket.onclose of socket s
TOnClose(s) ==
    /\ socketState[s] # "CLOSED"
    /\ socketState' = [socketState EXCEPT ![s] = "CLOSED"]
    /\ callbacks' = Invoke("onclose", None)
    /\ lastCall' = "onclose"
    /\ UNCHANGED <<constructed, urlAccepted, _socket, starts, sends, wire>>
    /\ UNCHANGED <<handlers, closeCalled>>
    /\ UNCHANGED <<toolVars, pairVars>>

\* this._socket.onmessage of socket s with event.data = data
TOnMessage(s, data) ==
    /\ socketState[s] \in {"OPEN", "CLOSING"}
    /\ LET parsed == ParseMessage(data)
       IN  callbacks' =
               IF parsed.threw
               THEN Invoke("onerror", parsed.error)
               ELSE Invoke("onmessage", parsed.message)
    /\ lastCall' = "onmessage"
    /\ UNCHANGED <<constructed, urlAccepted, _socket, socketState, starts, sends,
                   wire>>
    /\ UNCHANGED <<handlers, closeCalled>>
    /\ UNCHANGED <<toolVars, pairVars>>

\* Mutant of TClose: close() also clears the socket reference.
TCloseClearsSocket ==
    /\ constructed
    /\ socketState' = IF _socket = NoSocket THEN socketState
                      ELSE [socketState EXCEPT ![_socket] = WsClose(@)]
    /\ _socket' = NoSocket
    /\ lastCall' = "close"
    /\ closeCalled' = [afterStart |-> closeCalled.afterStart \/ starts # <<>>,
                       withSocket |-> closeCalled.withSocket \/ _socket # NoSocket]
    /\ UNCHANGED <<constructed, urlAccepted, starts, sends, wire, callbacks>>
    /\ UNCHANGED handlers
    /\ UNCHANGED <<toolVars, pairVars>>

\* close(): this._socket?.close()
TClose ==
    /\ constructed
    /\ socketState' = IF _socket = NoSocket THEN socketState
                      ELSE [socketState EXCEPT ![_socket] = WsClose(@)]
    /\ lastCall' = "close"
    /\ closeCalled' = [afterStart |-> closeCalled.afterStart \/ starts # <<>>,
                       withSocket |-> closeCalled.withSocket \/ _socket # NoSocket]
    /\ UNCHANGED <<constructed, urlAccepted, _socket, starts, sends, wire, callbacks>>
    /\ UNCHANGED handlers
    /\ UNCHANGED <<toolVars, pairVars>>

\* Mutant of TransportNotConnected: the readyState is not looked at.
TransportNotConnectedNoSocketOnly == _socket = NoSocket

\* if (!this._socket || this._socket.readyState !== WebSocket.OPEN)
TransportNotConnected == _socket = NoSocket \/ socketState[_socket] # "OPEN"

\* send(message)
TSend(message) ==
    /\ constructed
    /\ IF TransportNotConnected
       THEN /\ sends' = Append(sends, [state |-> "rejected", value |-> "Not connected"])
            /\ UNCHANGED wire
       ELSE LET outcome == WsSend(socketState[_socket])
            IN  /\ wire' = IF outcome = "sent"
                           THEN Append(wire, [sock |-> _socket,
                                              data |-> JSONStringifyMessage(message)])
                           ELSE wire
                /\ sends' = IF outcome = "threw"
                            THEN Append(sends, [state |-> "rejected",
                                                value |-> "WebSocket is not open"])
                            ELSE Append(sends, [state |-> "resolved", value |-> None])
    /\ lastCall' = "send"
    /\ UNCHANGED <<constructed, urlAccepted, _socket, socketState, starts, callbacks>>
    /\ UNCHANGED <<handlers, closeCalled>>
    /\ UNCHANGED <<toolVars, pairVars>>

\* ------------------------------------------------- the specifications
\* The inputs and frames of the request specification: one valid call, and
\* frames that answer it, answer nothing, or are not JSON.
CoreInputs == {[function |-> "getProjects", project_name |-> Absent,
                file_path |-> Absent]}
CoreFrames ==
    {[kind |-> "garbage"]} \cup
    [kind : {"object"}, request_id : RequestIds \cup {Absent},
     error : {Absent, "not found"}, data : {JSArray(<<"proj1", "proj2">>)}]

\* Spec: the request correlator over one connection.  Calls, responses in
\* any order and request timeouts, while the constructor's socket opens,
\* is closed by the peer or is cleaned up.
Next ==
    \/ \E s \in Sockets : OnOpen(s)
    \/ \E s \in Sockets : PeerClosing(s)
    \/ cleanup
    \/ Len(calls) < MaxCalls /\ \E input \in CoreInputs, text \in RandomTexts :
                                    Call(input, text)
    \/ \E s \in Sockets, frame \in CoreFrames : OnMessage(s, frame)
    \/ \E c \in CallIds : RequestTimer(c)
    \/ Tick

Spec == Init /\ [][Next]_vars

\* SpecReconnect: the request correlator over a connection that also
\* closes and reconnects.
NextReconnect ==
    \/ ReconnectTimer
    \/ \E s \in Sockets : OnOpen(s)
    \/ \E s \in Sockets : PeerClosing(s)
    \/ Room(MaxReconnects + 1) /\ \E s \in Sockets : OnClose(s)
    \/ cleanup
    \/ Len(calls) < MaxCalls /\ \E input \in CoreInputs, text \in RandomTexts :
                                    Call(input, text)
    \/ \E s \in Sockets, frame \in CoreFrames : OnMessage(s, frame)
    \/ \E c \in CallIds : RequestTimer(c)
    \/ Tick

SpecReconnect == Init /\ [][NextReconnect]_vars

\* SpecLate: requests in flight across unexpected closes.  The socket is
\* never cleaned up; it closes, the reconnect timer makes the next one, and
\* responses arrive on whichever socket is open.
NextLate ==
    \/ ReconnectTimer
    \/ \E s \in Sockets : OnOpen(s)
    \/ Room(MaxReconnects + 1) /\ \E s \in Sockets : OnClose(s)
    \/ Len(calls) < MaxFacadeCalls /\ \E input \in CoreInputs, text \in RandomTexts :
                                    Call(input, text)
    \/ \E s \in Sockets, frame \in CoreFrames : OnMessage(s, frame)
    \/ \E c \in CallIds : RequestTimer(c)
    \/ Tick

SpecLate == Init /\ [][NextLate]_vars

\* SpecTeardown: requests in flight across cleanup, with the event loop's
\* guarantees: time passes, and a timer that is due fires.
NextTeardown ==
    \/ \E s \in Sockets : OnOpen(s)
    \/ \E s \in Sockets : PeerClosing(s)
    \/ cleanup
    \/ Len(calls) < MaxFacadeCalls /\ \E input \in CoreInputs, text \in RandomTexts :
                                    Call(input, text)
    \/ \E s \in Sockets, frame \in CoreFrames : OnMessage(s, frame)
    \/ \E c \in CallIds : RequestTimer(c)
    \/ Tick

SpecTeardown ==
    /\ Init /\ [][NextTeardown]_vars
    /\ WF_vars(Tick)
    /\ WF_vars(\E c \in CallIds : RequestTimer(c))

\* SpecCleanup: cleanup in every state of the connection manager, with a
\* request pending.  Responses play no part and every request draws the
\* same id.
NextCleanup ==
    \/ (HasHandle \/ Room(MaxSockets)) /\ Connect
    \/ ReconnectTimer
    \/ \E s \in Sockets : OnOpen(s)
    \/ Room(MaxSockets) /\ \E s \in Sockets : OnClose(s)
    \/ cleanup
    \/ Len(calls) < MaxFacadeCalls /\ \E input \in CoreInputs, text \in {"0.i"} :
                                    Call(input, text)
    \/ \E c \in CallIds : RequestTimer(c)
    \/ Tick

SpecCleanup == Init /\ [][NextCleanup]_vars

\* SpecTransport: every interleaving of the transport's calls and the
\* events of its sockets.
NextTransport ==
    \/ \E accepted \in BOOLEAN : TConstruct(accepted)
    \/ \E cb \in CallbackNames : TAssign(cb)
    \/ Len(starts) < MaxTransportCalls /\ TStart
    \/ \E s \in TransportSockets : TOnOpen(s)
    \/ \E s \in TransportSockets : TOnError(s)
    \/ \E s \in TransportSockets : TOnClose(s)
    \/ Len(callbacks) < MaxTransportCalls
           /\ \E s \in TransportSockets, data \in TransportFrames : TOnMessage(s, data)
    \/ TClose
    \/ Len(sends) < MaxTransportCalls /\ \E message \in Messages : TSend(message)

SpecTransport == Init /\ [][NextTransport]_vars

\* SpecPair: two instances side by side, each with its own socket events,
\* calls, responses, timeouts and cleanup.  Every request draws the same id,
\* and every response names it.
PairTexts == {"0.i"}
PairFrames == {frame \in CoreFrames :
                 /\ frame.kind = "object"
                 /\ \E text \in PairTexts : frame.request_id = GenRequestId(text)}

\* The sockets both instances have created or are about to create.
PairSockets ==
    Len(instances[1].readyState) + Len(instances[1].reconnectTimers)
      + Len(instances[2].readyState) + Len(instances[2].reconnectTimers)

NextPair ==
    \/ \E i \in Instances : \E s \in 1..Len(instances[i].readyState) : POnOpen(i, s)
    \/ \E i \in Instances : \E s \in 1..Len(instances[i].readyState) :
          /\ PairSockets < MaxSockets
          /\ POnClose(i, s)
    \/ \E i \in Instances : PReconnectTimer(i)
    \/ \E i \in Instances : Pcleanup(i)
    \/ \E i \in Instances :
          /\ Len(instances[1].calls) + Len(instances[2].calls) < MaxCalls
          /\ \E input \in CoreInputs, text \in PairTexts : PCall(i, input, text)
    \/ \E i \in Instances : \E s \in 1..Len(instances[i].readyState) :
          \E frame \in PairFrames : POnMessage(i, s, frame)
    \/ \E i \in Instances : \E c \in 1..Len(instances[i].calls) : PRequestTimer(i, c)
    \/ PTick

SpecPair == Init /\ [][NextPair]_vars

\* SpecConn: the connection manager.  Every interleaving of
\* connectWebSocket calls, socket events, reconnect timers and cleanup.
NextConn ==
    \/ (HasHandle \/ Room(MaxSockets)) /\ Connect
    \/ ReconnectTimer
    \/ \E s \in Sockets : OnOpen(s)
    \/ \E s \in Sockets : PeerClosing(s)
    \/ Room(MaxSockets) /\ \E s \in Sockets : OnClose(s)
    \/ cleanup
    \/ Tick

SpecConn == Init /\ [][NextConn]_vars

\* SpecConnLive: SpecConn with the event loop's guarantees: time passes,
\* and a timer that is due fires.
SpecConnLive == SpecConn /\ WF_vars(Tick) /\ WF_vars(ReconnectTimer)

\* SpecFacade: the operation facade.  _call with every input, in every
\* connection state, within one instant (no timer falls due).
NextFacade ==
    \/ \E s \in Sockets : OnOpen(s)
    \/ \E s \in Sockets : PeerClosing(s)
    \/ Room(MaxReconnects + 1) /\ \E s \in Sockets : OnClose(s)
    \/ cleanup
    \/ Len(calls) < MaxFacadeCalls /\ \E input \in Inputs, text \in RandomTexts :
                                    Call(input, text)
    \/ \E s \in Sockets, frame \in Frames : OnMessage(s, frame)

SpecFacade == Init /\ [][NextFacade]_vars


\* ================================================================ claims
\* Call c went through sendWebSocketRequest and registered a request id.
Registered(c) == calls[c].request_id # NoId

\* The entry of call c is in the pending table.
InTable(c) ==
    /\ calls[c].request_id \in DOMAIN pending_requests
    /\ pending_requests[calls[c].request_id] = c

\* The call a step of _call has just added.
NewCall == calls'[Len(calls')]

\* C1: a response settles only the caller whose request id equals the
\* response's request_id: whenever a message event changes the record of a
\* call, the frame is an envelope carrying that call's own request id.
C1_ResponseSettlesOwnCaller ==
    [][(lastOp' = "message" /\ calls' # calls) =>
          \A s \in Sockets, frame \in CoreFrames :
              OnMessage(s, frame) =>
                  \A c \in CallIds :
                      calls'[c] # calls[c] =>
                          /\ frame.kind = "object"
                          /\ frame.request_id = calls[c].request_id]_vars

\* C1 witness: two requests with different ids in flight, the second one
\* answered first.
C1_Witness ==
    /\ Len(calls) = 2
    /\ Registered(1) /\ Registered(2)
    /\ calls[1].request_id # calls[2].request_id
    /\ calls[1].state = "waiting" /\ InTable(1)
    /\ calls[2].state = "resolved"
    /\ lastOp = "message"

\* C2: every registered request is settled exactly once: its continuations
\* are never invoked twice, and a request not yet settled still has its
\* entry in the pending table (nothing else can ever settle it).
C2_SettledExactlyOnce ==
    \A c \in CallIds :
        Registered(c) =>
            /\ calls[c].settles <= 1
            /\ calls[c].settles = 0 => InTable(c)

\* C3: an entry leaves the pending table only through a matching
\* response, its timeout or an explicit abandonment.
C3_RemovedByResponseTimeoutOrAbandon ==
    [][\A c \in CallIds :
          (/\ InTable(c)
           /\ ~(/\ calls[c].request_id \in DOMAIN pending_requests'
                /\ pending_requests'[calls[c].request_id] = c))
          => lastOp' \in {"message", "requestTimer", "cleanup"}]_vars

\* C4: once the 30 seconds of a request are over and its timer has fired
\* the request is settled (by a response before, or by the timeout now),
\* and a request is rejected with the timeout error only when its own 30
\* seconds have elapsed.
C4_TimeoutBoundary ==
    \A c \in CallIds :
        Registered(c) =>
            /\ calls[c].timer = TimerOff => calls[c].state # "waiting"
            /\ (calls[c].state = "rejected" /\ calls[c].value = "Request timeout")
                   => calls[c].timer <= 0

\* C5: a request made while the handle is null or the socket is not OPEN
\* is rejected at once with the not-connected error; no entry is added,
\* no timeout is armed and nothing is transmitted.
C5_NotConnectedFastFail ==
    [][(/\ lastOp' = "_call"
        /\ ValidationError(NewCall.input) = None
        /\ (ws = HandleNull \/ readyState[ws] # "OPEN"))
       => /\ NewCall.state = "rejected"
          /\ NewCall.value = "WebSocket is not connected"
          /\ NewCall.request_id = NoId
          /\ NewCall.timer = TimerOff
          /\ pending_requests' = pending_requests
          /\ sent' = sent]_vars

\* C5 witness: a call rejected as not connected while the handle refers to
\* a socket that is closing.
C5_Witness ==
    /\ lastOp = "_call"
    /\ ws # HandleNull
    /\ readyState[ws] = "CLOSING"
    /\ calls[Len(calls)].value = "WebSocket is not connected"

\* C6: at most one socket of the tool is connecting or open at a time.
C6_AtMostOneLiveSocket ==
    Cardinality({s \in Sockets : Live(s)}) <= 1

\* C7: connectWebSocket called while a handle exists changes nothing: no
\* socket, no timer, the handle and the pending table as before.
C7_ConnectWithHandleIsNoOp ==
    [][(lastOp' = "connectWebSocket" /\ ws # HandleNull)
       => /\ ws' = ws
          /\ readyState' = readyState
          /\ createdBy' = createdBy
          /\ reconnectTimers' = reconnectTimers
          /\ pending_requests' = pending_requests
          /\ calls' = calls
          /\ sent' = sent]_vars

\* C7 witness: connectWebSocket was called twice in a row and there is
\* still the one socket of the first call.
C7_Witness ==
    /\ lastOp = "connectWebSocket"
    /\ override
    /\ ws = 1
    /\ Len(readyState) = 1
    /\ readyState[1] = "OPEN"
    /\ createdBy[1].by = "call"

\* C8: after cleanup no socket is created by a reconnect timer.
C8_NoReconnectAfterCleanup ==
    \A s \in Sockets : ~(createdBy[s].by = "timer" /\ createdBy[s].afterCleanup)

\* C9: every close event clears the handle and arms one reconnect timer of
\* the fixed delay, and every close is followed by a connection attempt.
C9_CloseSchedulesReconnect ==
    /\ [][lastOp' = "close"
          => /\ ws' = HandleNull
             /\ reconnectTimers' = Append(reconnectTimers, ReconnectDelay)]_vars
    /\ (lastOp = "close") ~> (lastOp = "reconnectTimer")

\* C9 witness: the third socket, made by the reconnect timer after the
\* second close, with no cleanup and no other connectWebSocket call.
C9_Witness ==
    /\ lastOp = "reconnectTimer"
    /\ ~cleanupCalled
    /\ Len(readyState) = 3
    /\ createdBy[2].by = "timer" /\ createdBy[3].by = "timer"
    /\ readyState[1] = "CLOSED" /\ readyState[2] = "CLOSED"
    /\ ws = 3

\* The inputs _call rejects: a missing or empty required field, or a
\* function that is none of the three.
InvalidInput(input) ==
    \/ input.function = "getProjectTree" /\ input.project_name \in {Absent, ""}
    \/ /\ input.function = "getProjectFile"
       /\ (input.project_name \in {Absent, ""} \/ input.file_path \in {Absent, ""})
    \/ input.function \notin {"getProjects", "getProjectTree", "getProjectFile"}

\* C10: a call that fails validation transmits nothing, adds no entry to
\* the pending table and arms no timeout, whatever the connection state.
C10_ValidationBeforeNetwork ==
    [][(lastOp' = "_call" /\ InvalidInput(NewCall.input))
       => /\ sent' = sent
          /\ pending_requests' = pending_requests
          /\ NewCall.state = "rejected"
          /\ NewCall.request_id = NoId
          /\ NewCall.timer = TimerOff
          /\ \A c \in CallIds : calls'[c] = calls[c]]_vars

\* C10 witness: getProjectFile("proj1", "") failed on an open connection
\* with the file path error, and only the verification message was sent.
C10_Witness ==
    /\ lastOp = "_call"
    /\ ws # HandleNull
    /\ readyState[ws] = "OPEN"
    /\ calls[Len(calls)].input =
           [function |-> "getProjectFile", project_name |-> "proj1", file_path |-> ""]
    /\ calls[Len(calls)].value = "File path is required"
    /\ Len(sent) = 1
    /\ pending_requests = <<>>

\* A missing or empty input field.
MissingOrEmpty(x) == x \in {Absent, ""}

\* C11: getProjectFile validates the project name before the file path: a
\* missing or empty project name gives the project-name error whatever the
\* file path is, and the file-path error is given exactly when the project
\* name is non-empty and the file path is missing or empty.
C11_ProjectNameBeforeFilePath ==
    [][(lastOp' = "_call" /\ NewCall.input.function = "getProjectFile")
       => /\ MissingOrEmpty(NewCall.input.project_name)
                => /\ NewCall.state = "rejected"
                   /\ NewCall.value = "Project name is required"
          /\ (NewCall.state = "rejected" /\ NewCall.value = "File path is required")
                <=> (/\ ~MissingOrEmpty(NewCall.input.project_name)
                     /\ MissingOrEmpty(NewCall.input.file_path))]_vars

\* C11 witness: getProjectFile with neither project name nor file path has
\* failed with the project-name error.
C11_Witness ==
    /\ lastOp = "_call"
    /\ calls[Len(calls)].input =
           [function |-> "getProjectFile", project_name |-> Absent,
            file_path |-> Absent]
    /\ calls[Len(calls)].state = "rejected"
    /\ calls[Len(calls)].value = "Project name is required"

\* The envelopes a step has handed to ws.send.
NewlySent == SubSeq(sent', Len(sent) + 1, Len(sent'))

\* The fields of an envelope besides request_id, the sender field and type.
ExtraFields(env) == DOMAIN env \ {"request_id", "sender_type", "type"}

\* C12: _call maps each valid selector to exactly one wire request:
\* getProjects sends get_projects with no extra fields, getProjectTree
\* sends get_project_tree with project_name, getProjectFile sends get_file
\* with project_name and file_path; any other selector fails with the
\* invalid-operation error and sends nothing.
C12_DispatchMapping ==
    [][lastOp' = "_call" =>
          LET input == NewCall.input
              connected == ws # HandleNull /\ readyState[ws] = "OPEN"
          IN  /\ (~InvalidInput(input) /\ connected) => Len(NewlySent) = 1
              /\ Len(NewlySent) <= 1
              /\ \A i \in 1..Len(NewlySent) :
                    LET env == NewlySent[i].env
                    IN  \/ /\ input.function = "getProjects"
                           /\ env.type = "get_projects"
                           /\ ExtraFields(env) = {}
                        \/ /\ input.function = "getProjectTree"
                           /\ env.type = "get_project_tree"
                           /\ ExtraFields(env) = {"project_name"}
                           /\ env.project_name = input.project_name
                        \/ /\ input.function = "getProjectFile"
                           /\ env.type = "get_file"
                           /\ ExtraFields(env) = {"project_name", "file_path"}
                           /\ env.project_name = input.project_name
                           /\ env.file_path = input.file_path
              /\ input.function \notin {"getProjects", "getProjectTree", "getProjectFile"}
                    => /\ NewCall.state = "rejected"
                       /\ NewCall.value = "Invalid function: " \o input.function
                       /\ NewlySent = <<>>]_vars

\* C12 witness: getProjectFile("proj1", "a.txt") on an open connection has
\* sent one get_file envelope with both fields.
C12_Witness ==
    /\ lastOp = "_call"
    /\ calls[Len(calls)].input.function = "getProjectFile"
    /\ calls[Len(calls)].state = "waiting"
    /\ Len(sent) = 2
    /\ sent[2].env.type = "get_file"
    /\ sent[2].env.project_name = "proj1"
    /\ sent[2].env.file_path = "a.txt"

\* C13: every envelope handed to the socket (operation requests and the
\* verification message) carries a request_id, a type and the field
\* sender_role with the value "plugin".
C13_EnvelopeCarriesSenderRole ==
    \A i \in 1..Len(sent) :
        LET env == sent[i].env
        IN  /\ "request_id" \in DOMAIN env
            /\ "type" \in DOMAIN env
            /\ "sender_role" \in DOMAIN env
            /\ env.sender_role = "plugin"

\* C14: for every inbound envelope whose request_id is in the pending
\* table the presence of the error field decides the outcome: with an error
\* field (whatever its value, and whether or not data is present) the
\* caller is rejected with the remote error string; without one the caller
\* is resolved.
C14_ErrorPresenceDecides ==
    [][lastOp' = "message" =>
          \A s \in Sockets, frame \in ObjectFrames :
              (OnMessage(s, frame) /\ frame.request_id \in DOMAIN pending_requests)
              => LET c == pending_requests[frame.request_id]
                 IN  IF frame.error # Absent
                     THEN /\ calls'[c].state = "rejected"
                          /\ calls'[c].value = frame.error
                     ELSE calls'[c].state = "resolved"]_vars

\* A JavaScript string, as opposed to undefined.
IsString(v) == v # Absent

\* C15: every call that completes without error returns a string, the JSON
\* text of the data field of its response, also when the response carries
\* no data field.
C15_SuccessReturnsJSONString ==
    \A c \in CallIds :
        calls[c].state = "resolved" => IsString(calls[c].value)

\* C16: an inbound frame that is not valid JSON is dropped: it settles no
\* caller and leaves the pending table, the handle, the sockets and every
\* armed timer as they were, so the socket keeps receiving and a waiting
\* caller stays pending.  Stated by contraposition: a message step that
\* changes any of these is not the handling of such a frame.
C16_MalformedFrameDropped ==
    [][(/\ lastOp' = "message"
        /\ <<calls, pending_requests, ws, readyState, reconnectTimers, sent,
             uncaught>>' # <<calls, pending_requests, ws, readyState,
                             reconnectTimers, sent, uncaught>>)
       => \A s \in Sockets, frame \in CoreFrames :
              frame.kind = "garbage" => ~OnMessage(s, frame)]_vars

\* C16 witness: a frame that is not JSON has just been dropped on the open
\* socket while a request is waiting with its timeout still armed.
C16_Witness ==
    /\ lastOp = "message"
    /\ handled = "parse error"
    /\ ws # HandleNull
    /\ readyState[ws] = "OPEN"
    /\ Len(calls) = 1
    /\ calls[1].state = "waiting"
    /\ InTable(1)
    /\ calls[1].timer > 0

\* C17: an inbound envelope whose request_id is absent or is not a key of
\* the pending table (the reply to the "initial-connection" message
\* included) is ignored: no continuation is invoked and the pending table
\* is unchanged.  Stated by contraposition: a message step that changes a
\* call or the table is not the handling of such an envelope.
C17_UnknownIdIgnored ==
    [][(/\ lastOp' = "message"
        /\ (calls' # calls \/ pending_requests' # pending_requests))
       => \A s \in Sockets, frame \in ObjectFrames :
              (\/ frame.request_id = Absent
               \/ frame.request_id \notin DOMAIN pending_requests)
              => ~OnMessage(s, frame)]_vars

\* C17 witness: an envelope with an id that is not in the table has just
\* been handled while a request is waiting, and the request still waits.
C17_Witness ==
    /\ lastOp = "message"
    /\ handled = "unknown id"
    /\ Len(calls) = 1
    /\ calls[1].state = "waiting"
    /\ calls[1].settles = 0
    /\ InTable(1)

\* The request envelopes among the envelopes sent: all but the
\* verification messages.
RequestEnvelopes(envelopes) ==
    {i \in 1..Len(envelopes) : envelopes[i].env.type # "connection_verify"}

\* C18: the facade never retries: an invocation of _call hands at most one
\* request envelope to the socket, no other step (a response, a remote
\* error, a timeout, a socket event) transmits a request envelope, and so
\* there are never more request envelopes than invocations.
C18_NoRetry ==
    /\ [][/\ Len(sent') >= Len(sent)
          /\ SubSeq(sent', 1, Len(sent)) = sent
          /\ IF lastOp' = "_call"
             THEN Len(NewlySent) <= 1
             ELSE RequestEnvelopes(NewlySent) = {}]_vars
    /\ [](Cardinality(RequestEnvelopes(sent)) <= Len(calls))

\* C18 witness: a request has timed out on the open socket and its
\* envelope was transmitted exactly once.
C18_Witness ==
    /\ lastOp = "requestTimer"
    /\ Len(calls) = 1
    /\ calls[1].state = "rejected"
    /\ calls[1].value = "Request timeout"
    /\ ws # HandleNull
    /\ readyState[ws] = "OPEN"
    /\ Cardinality(RequestEnvelopes(sent)) = 1

\* The socket the request of a registered call c was sent on: the n-th
\* registered call made the n-th request envelope.
SocketOf(c) ==
    LET n == Cardinality({d \in 1..c : Registered(d)})
        i == CHOOSE j \in RequestEnvelopes(sent) :
                 Cardinality({k \in RequestEnvelopes(sent) : k <= j}) = n
    IN  sent[i].sock

\* The request of call c is in flight and its connection has closed
\* without a cleanup.
ClosedInFlight(c) ==
    /\ ~cleanupCalled
    /\ Registered(c)
    /\ calls[c].state = "waiting"
    /\ readyState[SocketOf(c)] = "CLOSED"

\* C19 as stated: a caller in flight when the connection closes is settled
\* only by its own 30 second timeout, also when the connection has been
\* re-established and messages arrive on the new socket.
C19_SettledOnlyByOwnTimeout ==
    [][\A c \in CallIds :
          (ClosedInFlight(c) /\ calls'[c].state # "waiting")
          => /\ lastOp' = "requestTimer"
             /\ calls[c].timer = 0
             /\ calls'[c].value = "Request timeout"]_vars

\* C19 amended: the close event itself settles no caller and leaves the
\* pending table unchanged, and a caller in flight at the close is settled
\* afterwards only by a request timeout or by a response carrying its
\* request id, which may arrive on the re-established socket.
C19_SettledByTimeoutOrLateResponse ==
    /\ [][lastOp' = "close"
          => calls' = calls /\ pending_requests' = pending_requests]_vars
    /\ [][\A c \in CallIds :
            (ClosedInFlight(c) /\ calls'[c].state # "waiting")
            => \/ /\ lastOp' = "requestTimer"
                  /\ calls'[c].state = "rejected"
                  /\ calls'[c].value = "Request timeout"
               \/ /\ lastOp' = "message"
                  /\ \E s \in Sockets, frame \in CoreFrames :
                        /\ frame.kind = "object"
                        /\ frame.request_id = calls[c].request_id
                        /\ OnMessage(s, frame)]_vars

\* C19 witness: the request of call 1 went out on socket 1, socket 1 closed
\* with the request in flight, the reconnect timer made socket 2, and a
\* response on socket 2 has just resolved the caller.
C19_Witness ==
    /\ lastOp = "message"
    /\ ~cleanupCalled
    /\ Len(calls) = 1
    /\ Registered(1)
    /\ SocketOf(1) = 1
    /\ readyState[1] = "CLOSED"
    /\ ws = 2
    /\ readyState[2] = "OPEN"
    /\ calls[1].state = "resolved"
    /\ calls[1].timer > 0

C21_CleanupTouchesOnlySocket ==
    [][lastOp' = "cleanup" =>
          /\ IF ws # HandleNull
             THEN /\ ws' = HandleNull
                  /\ readyState'[ws] \notin {"CONNECTING", "OPEN"}
                  /\ \A s \in Sockets \ {ws} : readyState'[s] = readyState[s]
                  /\ Len(readyState') = Len(readyState)
             ELSE ws' = ws /\ readyState' = readyState
          /\ pending_requests' = pending_requests
          /\ calls' = calls
          /\ reconnectTimers' = reconnectTimers
          /\ sent' = sent]_vars

\* C21 witness: cleanup has just closed the connecting socket 2 while the
\* request of call 1 is pending with its timeout armed and the reconnection
\* timer set by the close of socket 1 is still scheduled.
C21_Witness ==
    /\ lastOp = "cleanup"
    /\ ws = HandleNull
    /\ Len(readyState) = 2
    /\ readyState[1] = "CLOSED"
    /\ readyState[2] = "CLOSING"
    /\ reconnectTimers # <<>>
    /\ Len(calls) = 1
    /\ InTable(1)
    /\ calls[1].state = "waiting"
    /\ calls[1].timer > 0

\* The socket whose open event a step has handled.
Opened(s) == readyState[s] = "CONNECTING" /\ readyState'[s] = "OPEN"

\* C22: each time a socket opens exactly one verification message (type
\* connection_verify, request_id "initial-connection") is transmitted over
\* it; the message adds no entry to the pending table and arms no timeout.
C22_OneVerificationPerOpen ==
    [][\A s \in Sockets :
          (lastOp' = "open" /\ Opened(s))
          => /\ Len(NewlySent) = 1
             /\ NewlySent[1].sock = s
             /\ NewlySent[1].env.type = "connection_verify"
             /\ NewlySent[1].env.request_id = "initial-connection"
             /\ pending_requests' = pending_requests
             /\ calls' = calls]_vars

\* The request of call c was settled by a response: resolved, or rejected
\* with the remote error.
SettledByResponse(c) ==
    /\ Registered(c)
    /\ \/ calls[c].state = "resolved"
       \/ /\ calls[c].state = "rejected"
          /\ calls[c].value # "Request timeout"

\* The timeout timer of call c fires in this step.
TimerFires(c) ==
    lastOp' = "requestTimer" /\ calls[c].timer = 0 /\ calls'[c].timer = TimerOff

\* C23: once a response has settled a request, the firing of that
\* request's timeout timer is a no-op: no continuation is invoked and no
\* entry leaves the pending table, also when a newer pending request has
\* the same id.
C23_StaleTimerIsNoOp ==
    [][\A c \in CallIds :
          (SettledByResponse(c) /\ TimerFires(c))
          => /\ pending_requests' = pending_requests
             /\ \A d \in CallIds :
                   /\ calls'[d].state = calls[d].state
                   /\ calls'[d].value = calls[d].value
                   /\ calls'[d].settles = calls[d].settles]_vars

\* C24: sendWebSocketRequest never registers an id that is already a key
\* of the pending table, so the entry of a pending request is never
\* overwritten and two waiting requests never share an id.
C24_NoPendingIdReused ==
    /\ [][(lastOp' = "_call" /\ NewCall.request_id # NoId)
          => NewCall.request_id \notin DOMAIN pending_requests]_vars
    /\ [](\A c, d \in CallIds :
            (/\ c # d
             /\ Registered(c) /\ calls[c].state = "waiting" /\ calls[c].timer # TimerOff
             /\ Registered(d) /\ calls[d].state = "waiting" /\ calls[d].timer # TimerOff)
            => calls[c].request_id # calls[d].request_id)

\* C25: when creating the socket fails inside connectWebSocket the failure
\* is handled like a close event: the handle ends null, exactly one
\* reconnection timer of the fixed delay is added, no socket exists, nothing
\* is thrown to a caller and the pending table is unchanged.
C25_CreateFailureLikeClose ==
    /\ [][(/\ lastOp' \in {"connectWebSocket", "reconnectTimer"}
           /\ ws = HandleNull
           /\ ~urlValid)
          => /\ ws' = HandleNull
             /\ reconnectTimers' =
                    Append(IF lastOp' = "reconnectTimer"
                           THEN Tail(reconnectTimers) ELSE reconnectTimers,
                           ReconnectDelay)
             /\ readyState' = readyState
             /\ pending_requests' = pending_requests
             /\ calls' = calls
             /\ uncaught' = uncaught]_vars
    /\ []((lastOp = "constructor" /\ ~override /\ ~urlValid)
            => /\ ws = HandleNull
               /\ reconnectTimers = <<ReconnectDelay>>
               /\ readyState = <<>>
               /\ pending_requests = <<>>)

\* C25 witness: the reconnection timer armed by a failed creation has
\* fired, creation has failed again, and one new timer is armed.
C25_Witness ==
    /\ lastOp = "reconnectTimer"
    /\ ~urlValid
    /\ ~override
    /\ ws = HandleNull
    /\ readyState = <<>>
    /\ reconnectTimers = <<ReconnectDelay>>

\* Call c is settled in this step.
Settled(c) == calls[c].state = "waiting" /\ calls'[c].state # "waiting"

\* C26: request timeouts are independent: a step that settles one request
\* (by response, remote error or timeout) removes that request's entry and
\* no other, a timeout settles only the request whose timer fired, and
\* every other pending request keeps its entry and its remaining time.
C26_IndependentTimeouts ==
    [][\A c \in CallIds :
          Settled(c)
          => /\ pending_requests' = Delete(pending_requests, calls[c].request_id)
             /\ lastOp' = "requestTimer" => TimerFires(c)
             /\ \A d \in CallIds \ {c} :
                   (Registered(d) /\ calls[d].state = "waiting")
                   => /\ calls'[d] = calls[d]
                      /\ InTable(d) =>
                            /\ calls[d].request_id \in DOMAIN pending_requests'
                            /\ pending_requests'[calls[d].request_id] = d]_vars

\* C27: two instances share no state.  Every handler of one instance (a
\* socket event, a reconnect timer, a call, a response, a request timeout,
\* cleanup) leaves the fields of the other instance, its sockets, its timers,
\* its calls and the contents of its pending table as they were, even when
\* both have a request pending under the same id.  Only the passage of time
\* moves the timers of both.
C27_InstancesShareNoState ==
    [][\/ \E i \in Instances : \A j \in Instances \ {i} :
              /\ instances'[j] = instances[j]
              /\ TableOf(j)' = TableOf(j)
       \/ PTick]_vars

\* C27 witness: both instances registered a request under the same id; the
\* response to the second instance resolved its call and left the call of
\* the first waiting in its own table.
C27_Witness ==
    /\ \A i \in Instances : Len(instances[i].calls) = 1
    /\ instances[1].calls[1].request_id = instances[2].calls[1].request_id
    /\ instances[2].calls[1].state = "resolved"
    /\ instances[2].calls[1].request_id \notin DOMAIN TableOf(2)
    /\ instances[1].calls[1].state = "waiting"
    /\ instances[1].calls[1].request_id \in DOMAIN TableOf(1)

\* C28: a tool constructed with override starts with a null handle, an
\* empty pending table, no socket and no reconnection timer, and gets its
\* first socket only from an explicit connectWebSocket call; a tool
\* constructed without it has started a connection attempt when the
\* constructor returns (a connecting socket, or the retry timer of a
\* failed creation).
C28_OverrideStartsDisconnected ==
    /\ []((lastOp = "constructor" /\ override)
            => /\ ws = HandleNull
               /\ readyState = <<>>
               /\ reconnectTimers = <<>>
               /\ pending_requests = <<>>)
    /\ [][(override /\ readyState = <<>> /\ reconnectTimers = <<>>
               /\ lastOp' # "connectWebSocket")
          => (ws' = HandleNull /\ readyState' = <<>> /\ reconnectTimers' = <<>>)]_vars
    /\ []((lastOp = "constructor" /\ ~override)
            => \/ ws = 1 /\ readyState = <<"CONNECTING">>
               \/ ~urlValid /\ ws = HandleNull /\ reconnectTimers = <<ReconnectDelay>>)

\* C28 witness: a tool constructed with override was cleaned up while it
\* had no socket, and connectWebSocket has now created its first socket.
C28_Witness ==
    /\ override
    /\ cleanupCalled
    /\ lastOp = "connectWebSocket"
    /\ ws = 1
    /\ readyState = <<"CONNECTING">>
    /\ createdBy[1].by = "call"

\* C29: start() fails with the already-started error whenever an earlier
\* start created a socket; it then creates no second socket and leaves the
\* socket, the promises its handlers settle and the callbacks untouched.
C29_SecondStartFails ==
    [][(lastCall' = "start" /\ _socket # NoSocket)
       => /\ starts'[Len(starts')].state = "threw"
          /\ starts'[Len(starts')].value = AlreadyStarted
          /\ SubSeq(starts', 1, Len(starts)) = starts
          /\ _socket' = _socket
          /\ socketState' = socketState
          /\ callbacks' = callbacks
          /\ wire' = wire]_vars

\* C29 witness: the first start opened socket 1 and the second start has
\* just thrown; there is still only socket 1, and it is open.
C29_Witness ==
    /\ lastCall = "start"
    /\ Len(starts) = 2
    /\ starts[1].state = "resolved"
    /\ starts[2].state = "threw"
    /\ _socket = 1
    /\ socketState = <<"OPEN">>

\* C30: send() rejects with the not-connected error and transmits nothing
\* whenever there is no socket or the socket is not OPEN; on an OPEN socket
\* it transmits exactly one serialized message and resolves.
C30_SendNeedsOpenSocket ==
    [][lastCall' = "send" =>
          LET new == sends'[Len(sends')]
          IN  IF _socket = NoSocket \/ socketState[_socket] # "OPEN"
              THEN /\ new.state = "rejected"
                   /\ new.value = "Not connected"
                   /\ wire' = wire
              ELSE /\ new.state = "resolved"
                   /\ Len(wire') = Len(wire) + 1
                   /\ SubSeq(wire', 1, Len(wire)) = wire
                   /\ wire'[Len(wire')].sock = _socket
                   /\ \E message \in Messages :
                         wire'[Len(wire')].data = JSONStringifyMessage(message)]_vars

\* C30 witness: a send before the socket was open was rejected, and a
\* send on the open socket has just transmitted one message.
C30_Witness ==
    /\ lastCall = "send"
    /\ Len(sends) = 2
    /\ sends[1].state = "rejected"
    /\ sends[1].value = "Not connected"
    /\ sends[2].state = "resolved"
    /\ Len(wire) = 1
    /\ socketState[_socket] = "OPEN"

\* A frame that is the JSON text of a protocol message.
IsProtocolMessage(data) == \E message \in Messages : data = JSONStringifyMessage(message)

\* The message a frame is the JSON text of.
MessageOf(data) == CHOOSE message \in Messages : data = JSONStringifyMessage(message)

\* C31 as stated: every inbound frame invokes exactly one callback,
\* onmessage with the parsed message for a frame that is a protocol message
\* and onerror for any other frame, and leaves the socket as it was.
C31_ExactlyOneCallbackPerFrame ==
    [][lastCall' = "onmessage" =>
          \A s \in TransportSockets, data \in TransportFrames :
              TOnMessage(s, data) =>
                  /\ Len(callbacks') = Len(callbacks) + 1
                  /\ SubSeq(callbacks', 1, Len(callbacks)) = callbacks
                  /\ callbacks'[Len(callbacks')].cb =
                        IF IsProtocolMessage(data) THEN "onmessage" ELSE "onerror"
                  /\ socketState' = socketState]_vars

\* C31 amended: an inbound frame invokes at most one callback.  A frame that
\* is a protocol message invokes onmessage with the parsed message if
\* onmessage is assigned; any other frame invokes onerror if onerror is
\* assigned and never onmessage; with the callback unassigned the frame is
\* dropped.  The socket is left as it was.
C31_AssignedCallbackPerFrame ==
    [][lastCall' = "onmessage" =>
          \A s \in TransportSockets, data \in TransportFrames :
              TOnMessage(s, data) =>
                  /\ socketState' = socketState
                  /\ IF IsProtocolMessage(data)
                     THEN callbacks' =
                            IF "onmessage" \in handlers
                            THEN Append(callbacks, [cb |-> "onmessage",
                                                    arg |-> MessageOf(data)])
                            ELSE callbacks
                     ELSE /\ Len(callbacks') =
                               Len(callbacks) + (IF "onerror" \in handlers THEN 1 ELSE 0)
                          /\ SubSeq(callbacks', 1, Len(callbacks)) = callbacks
                          /\ \A k \in Len(callbacks) + 1..Len(callbacks') :
                                callbacks'[k].cb = "onerror"]_vars

\* C31 witness: on one open socket a frame that is no protocol message has
\* invoked onerror and a protocol message has then invoked onmessage.
C31_Witness ==
    /\ lastCall = "onmessage"
    /\ Len(callbacks) = 2
    /\ callbacks[1].cb = "onerror"
    /\ callbacks[1].arg = "ZodError"
    /\ callbacks[2].cb = "onmessage"
    /\ _socket # NoSocket
    /\ socketState[_socket] = "OPEN"

\* C32: sendWebSocketRequest registers the entry and arms the timeout before
\* it transmits the envelope: in the state in which a request envelope has
\* just been handed to the socket, the pending table holds an entry under the
\* envelope's request_id for the new call and that call's 30 second timer is
\* armed; and every request envelope on the wire carries the id some call
\* has registered, so no response can answer an id not yet registered.
C32_RegisteredBeforeTransmit ==
    /\ [][\A k \in RequestEnvelopes(NewlySent) :
              LET id == NewlySent[k].env.request_id
              IN  /\ id \in DOMAIN pending_requests'
                  /\ pending_requests'[id] = Len(calls')
                  /\ NewCall.request_id = id
                  /\ NewCall.state = "waiting"
                  /\ NewCall.timer = RequestTimeout]_vars
    /\ [](\A k \in RequestEnvelopes(sent) :
              \E c \in CallIds : calls[c].request_id = sent[k].env.request_id)

\* C32 witness: a call has just transmitted its envelope and its entry is in
\* the table with the timer armed.
C32_Witness ==
    /\ lastOp = "_call"
    /\ RequestEnvelopes(sent) # {}
    /\ LET id == sent[Len(sent)].env.request_id
       IN  /\ sent[Len(sent)].env.type = "get_projects"
           /\ id \in DOMAIN pending_requests
           /\ pending_requests[id] = Len(calls)
           /\ calls[Len(calls)].timer = RequestTimeout

\* C33: whenever the open event of a socket fires, the handle is non-null
\* and refers to that socket, now OPEN, so the verification message goes
\* out over the socket that opened and the open handler does not throw.
C33_OpenHandleIsOpenedSocket ==
    [][\A s \in Sockets :
          (lastOp' = "open" /\ Opened(s))
          => /\ ws # HandleNull
             /\ ws = s
             /\ readyState'[ws] = "OPEN"
             /\ uncaught' = uncaught
             /\ Len(NewlySent) = 1
             /\ NewlySent[1].sock = s]_vars

\* C34: every id the generator can produce, the empty string of the draw 0
\* included, is matched by the message handler: a response carrying the id
\* of a pending request settles that request and removes its entry.
C34_PendingIdAlwaysMatched ==
    [][lastOp' = "message" =>
          \A s \in Sockets, frame \in CoreFrames :
              (/\ frame.kind = "object"
               /\ frame.request_id \in DOMAIN pending_requests
               /\ OnMessage(s, frame))
              => /\ calls'[pending_requests[frame.request_id]].state # "waiting"
                 /\ frame.request_id \notin DOMAIN pending_requests']_vars

\* C35 as stated: the transport is started at most once: it never creates a
\* second socket, and once close() has been called after a call of start(),
\* every later start() fails with the already-started error and every later
\* send() rejects with the not-connected error and transmits nothing.
C35_StartedAtMostOnce ==
    /\ [](Len(socketState) <= 1)
    /\ [][closeCalled.afterStart =>
              /\ Len(starts') > Len(starts) =>
                    /\ starts'[Len(starts')].state = "threw"
                    /\ starts'[Len(starts')].value = AlreadyStarted
              /\ Len(sends') > Len(sends) =>
                    /\ sends'[Len(sends')].state = "rejected"
                    /\ sends'[Len(sends')].value = "Not connected"
                    /\ wire' = wire]_vars

\* C35 amended: the transport never creates a second socket, and once
\* close() has been called on a transport whose start() created the socket,
\* every later start() fails with the already-started error, creating
\* nothing, and every later send() rejects with the not-connected error and
\* transmits nothing.  (A start() whose socket could not be created leaves
\* no socket reference; a later start() fails with the constructor's error.)
C35_StartedAtMostOnceWithSocket ==
    /\ [](Len(socketState) <= 1)
    /\ [][closeCalled.withSocket =>
              /\ _socket' = _socket
              /\ Len(socketState') = Len(socketState)
              /\ Len(starts') > Len(starts) =>
                    /\ starts'[Len(starts')].state = "threw"
                    /\ starts'[Len(starts')].value = AlreadyStarted
              /\ Len(sends') > Len(sends) =>
                    /\ sends'[Len(sends')].state = "rejected"
                    /\ sends'[Len(sends')].value = "Not connected"
                    /\ wire' = wire]_vars

\* C35 witness: the transport was started and opened, close() was called,
\* and then a second start() has thrown and a send() has been rejected.
C35_Witness ==
    /\ closeCalled.withSocket
    /\ lastCall = "send"
    /\ Len(starts) = 2
    /\ starts[1].state = "resolved"
    /\ starts[2].state = "threw"
    /\ starts[2].value = AlreadyStarted
    /\ Len(socketState) = 1
    /\ sends # <<>>
    /\ sends[Len(sends)].state = "rejected"
    /\ sends[Len(sends)].value = "Not connected"

====
